---- MODULE Spec2Model ----
(***************************************************************************)
(* Model of the two programs of the repository:                            *)
(*   rain_probability.c  - Poisson-binomial tail probability               *)
(*   most_freq_words.c   - n most frequent words of a text file            *)
(* Each program is a sequential computation.  The loop that folds in the   *)
(* trials and the loop that reads the file take one step per iteration;    *)
(* the other loops take one step each.  SpecRain and SpecWords are the two *)
(* specifications.                                                         *)
(***************************************************************************)
EXTENDS Integers, Sequences, FiniteSets

VARIABLES p, rain_n, pmf, rain_i, scale, probability, pReads, pmfAccess, rain_pc

VARIABLES text, words_n, file, rdpos, word_buffer, pos, hash_table, tokens,
          word_linked_list, count, wllWrites, result, ret, uninitReads,
          printed, words_pc

rainVars == <<p, rain_n, pmf, rain_i, scale, probability, pReads, pmfAccess, rain_pc>>

wordsVars == <<text, words_n, file, rdpos, word_buffer, pos, hash_table, tokens,
               word_linked_list, count, wllWrites, result, ret, uninitReads,
               printed, words_pc>>

vars == <<rainVars, wordsVars>>

(***************************************************************************)
(* rain_probability.c                                                      *)
(*                                                                         *)
(* Probabilities are exact rationals.  An input probability is num/Den     *)
(* with num in 0..Den.  After t trials have been folded in, pmf[k] holds   *)
(* the numerator of a fraction whose denominator is scale = Den^t, so the  *)
(* value 1.0 is the numerator scale.  The rounding of C floats is not      *)
(* modelled.                                                               *)
(***************************************************************************)

\* The code's DAYSPERYEAR is 365 (rain_probability.c:42); the model runs
\* the same loops over a shorter year.
DAYSPERYEAR == 3

\* Resolution of the input probabilities: p[i] is one of 0/Den .. Den/Den.
Den == 2

PVals == 0..Den

\* What a read of p[DAYSPERYEAR], one element past the end of main's array
\* float p[DAYSPERYEAR], may yield: any float, inside or outside [0,1].
OobValues == (0 - 1)..(Den + 1)

\* Thresholds the caller may pass: below, inside and above 0..DAYSPERYEAR-1.
NVals == (0 - 2)..(DAYSPERYEAR + 1)

\* Line 57 with the upper test off by one: n = DAYSPERYEAR is computed.
OutOfDomain_OffByOne(nn) == nn < 0 \/ nn > DAYSPERYEAR

\* Line 57 with the lower test off by one: n = -1 is computed.
OutOfDomain_AllowMinusOne(nn) == nn < (0 - 1) \/ nn >= DAYSPERYEAR

\* prob_rain_more_than_n, line 57: the boundary policy.
OutOfDomain(nn) == nn < 0 \/ nn >= DAYSPERYEAR

\* prob_mass_func, lines 49-51: the inner loop, j descending to 1.
RECURSIVE InnerLoop(_, _, _)
InnerLoop(pm, pi, j) ==
    IF j > 0
    THEN InnerLoop([pm EXCEPT ![j] = pi * pm[j - 1] + (Den - pi) * pm[j]], pi, j - 1)
    ELSE pm

\* prob_mass_func, lines 48-52: one iteration of the outer loop with the
\* value pi read from p[i].  Entries above i are untouched by the code;
\* they are carried to the new denominator.
FoldTrial(pm, ii, pi) ==
    LET a == [pm EXCEPT ![ii] = pi * pm[ii - 1]]
        b == InnerLoop(a, pi, ii - 1)
        c == [b EXCEPT ![0] = (Den - pi) * b[0]]
    IN  [k \in 0..DAYSPERYEAR |-> IF k > ii THEN Den * c[k] ELSE c[k]]

\* The indices of pmf that iteration ii reads or writes (lines 48-52).
FoldAccess(ii) == {ii, ii - 1} \cup {0} \cup UNION {{j, j - 1} : j \in 1..(ii - 1)}

\* prob_rain_more_than_n, lines 71-74: sum of pmf[k], k = lo..DAYSPERYEAR.
RECURSIVE TailSum(_, _)
TailSum(pm, k) == IF k <= DAYSPERYEAR THEN pm[k] + TailSum(pm, k + 1) ELSE 0

\* The word counter is not running.
WordsIdle ==
    /\ text = <<>>
    /\ words_n = 0
    /\ file = "none"
    /\ rdpos = 0
    /\ word_buffer = <<>>
    /\ pos = 0
    /\ hash_table = <<>>
    /\ tokens = <<>>
    /\ word_linked_list = <<>>
    /\ count = 0
    /\ wllWrites = {}
    /\ result = <<>>
    /\ ret = "none"
    /\ uninitReads = {}
    /\ printed = <<>>
    /\ words_pc = "idle"

\* main, lines 114-124: p has DAYSPERYEAR elements, and n is the argument.
InitRain ==
    /\ p \in [0..(DAYSPERYEAR - 1) -> PVals]
    /\ rain_n \in NVals
    /\ pmf = [k \in 0..DAYSPERYEAR |-> 0]
    /\ rain_i = 0
    /\ scale = 1
    /\ probability = 0
    /\ pReads = {}
    /\ pmfAccess = {}
    /\ rain_pc = "entry"
    /\ WordsIdle

\* Lines 57-59: return 0.0 for a threshold outside 0..DAYSPERYEAR-1.
ReturnBoundary ==
    /\ rain_pc = "entry"
    /\ OutOfDomain(rain_n)
    /\ probability' = 0
    /\ rain_pc' = "done"
    /\ UNCHANGED <<p, rain_n, pmf, rain_i, scale, pReads, pmfAccess>>
    /\ UNCHANGED wordsVars

\* Lines 62-65 and 46: zero the pmf array, then pmf[0] = 1.0.
InitPmf ==
    /\ rain_pc = "entry"
    /\ ~OutOfDomain(rain_n)
    /\ pmf' = [k \in 0..DAYSPERYEAR |-> IF k = 0 THEN 1 ELSE 0]
    /\ pmfAccess' = 0..DAYSPERYEAR
    /\ rain_i' = 1
    /\ rain_pc' = "fold"
    /\ UNCHANGED <<p, rain_n, scale, probability, pReads>>
    /\ UNCHANGED wordsVars

\* Lines 47-53: one iteration of the outer loop, which reads p[i].  For
\* i = DAYSPERYEAR the read is past the end of the array.
Fold ==
    /\ rain_pc = "fold"
    /\ rain_i <= DAYSPERYEAR
    /\ \E pi \in (IF rain_i \in DOMAIN p THEN {p[rain_i]} ELSE OobValues) :
          pmf' = FoldTrial(pmf, rain_i, pi)
    /\ pReads' = pReads \cup {rain_i}
    /\ pmfAccess' = pmfAccess \cup FoldAccess(rain_i)
    /\ scale' = scale * Den
    /\ rain_i' = rain_i + 1
    /\ UNCHANGED <<p, rain_n, probability, rain_pc>>
    /\ UNCHANGED wordsVars

\* Lines 71-76: the tail sum and the return.
ReturnTail ==
    /\ rain_pc = "fold"
    /\ rain_i > DAYSPERYEAR
    /\ probability' = TailSum(pmf, rain_n + 1)
    /\ pmfAccess' = pmfAccess \cup (rain_n + 1)..DAYSPERYEAR
    /\ rain_pc' = "done"
    /\ UNCHANGED <<p, rain_n, pmf, rain_i, scale, pReads>>
    /\ UNCHANGED wordsVars

NextRain == ReturnBoundary \/ InitPmf \/ Fold \/ ReturnTail

SpecRain == InitRain /\ [][NextRain]_vars

(***************************************************************************)
(* most_freq_words.c                                                       *)
(*                                                                         *)
(* A character is its code, a word the sequence of its characters.  The    *)
(* file's content is text; fgetc yields text[rdpos + 1] or, at its end,    *)
(* EOF.  tokens records the words passed to add_word, in order.            *)
(***************************************************************************)

\* The code's HASH_TABLE_SIZE is 10000 (line 35); the model's table is
\* smaller, so that a short text fills it.
HASH_TABLE_SIZE == 2

\* The code's WORD_BUFFER_SIZE is 150 (line 36); the model's buffer is
\* shorter, so that a short word fills it.
WORD_BUFFER_SIZE == 3

\* Longest file content.
MaxTextLen == 5

\* Largest n asked for.
MaxN == 3

Apostrophe == 39

\* The characters of the files: a, b, C, the apostrophe and the space.
Chars == {97, 98, 67, Apostrophe, 32}

Texts == UNION {[1..k -> Chars] : k \in 0..MaxTextLen}

WordsNVals == (0 - 1)..MaxN

\* <ctype.h>, "C" locale.
isalpha(c) == c \in 65..90 \/ c \in 97..122

tolower(c) == IF c \in 65..90 THEN c + 32 ELSE c

\* Line 134 without the test of pos: an apostrophe may start a word.
Joins_LeadingApostrophe(c, ps) == isalpha(c) \/ c = Apostrophe

\* find_frequent_words, line 134: whether c belongs to a word.
Joins(c, ps) == isalpha(c) \/ (c = Apostrophe /\ ps > 0)

\* djb2_hash, lines 51-55: the loop over the characters.  The unsigned
\* 32-bit hash is kept as its two 16-bit halves, hash = hi * 65536 + lo, and
\* hash * 33 + c is reduced modulo 2^32 by dropping the carry out of hi.
RECURSIVE djb2_loop(_, _, _, _)
djb2_loop(hi, lo, word, k) ==
    IF k > Len(word) THEN <<hi, lo>>
    ELSE LET l == lo * 33 + word[k]
             h == hi * 33 + (l \div 65536)
         IN  djb2_loop(h % 65536, l % 65536, word, k + 1)

\* djb2_hash, lines 50-57: hash % HASH_TABLE_SIZE, from the two halves.
djb2_hash(word) ==
    LET hash == djb2_loop(0, 5381, word, 1)
    IN  ((hash[1] % HASH_TABLE_SIZE) * (65536 % HASH_TABLE_SIZE) + hash[2])
            % HASH_TABLE_SIZE

\* The C string held in the buffer: its characters up to the first '\0'.
RECURSIVE CString(_, _)
CString(buf, k) ==
    IF k > WORD_BUFFER_SIZE - 1 \/ buf[k] = 0 THEN <<>>
    ELSE <<buf[k]>> \o CString(buf, k + 1)

\* create_WordFreqNode, lines 60-70.
create_WordFreqNode(word) == [word |-> word, count |-> 1]

\* add_word, lines 73-90: a chain is the sequence of its nodes from the
\* head; a word found has its count incremented, a new one becomes the head.
add_word(table, word) ==
    LET search_key == djb2_hash(word)
        chain == table[search_key]
        found == {k \in 1..Len(chain) : chain[k].word = word}
    IN  IF found # {}
        THEN LET k == CHOOSE x \in found : \A y \in found : x <= y
             IN  [table EXCEPT ![search_key][k].count = chain[k].count + 1]
        ELSE [table EXCEPT ![search_key] = <<create_WordFreqNode(word)>> \o chain]

\* compare_by_frequency, lines 93-97.
compare_by_frequency(node_a, node_b) == node_b.count - node_a.count

\* find_frequent_words, lines 166-174: the nodes of buckets i.. in the order
\* the loops visit them.
RECURSIVE CollectNodes(_, _)
CollectNodes(table, i) ==
    IF i >= HASH_TABLE_SIZE THEN <<>>
    ELSE table[i] \o CollectNodes(table, i + 1)

\* qsort, line 177: the array in some order that the comparison accepts;
\* the order of nodes that compare equal is qsort's choice.
SortedOrders(list) ==
    LET idx == 1..Len(list)
        perms == {f \in [idx -> idx] : \A a, b \in idx : a # b => f[a] # f[b]}
        arrs == {[k \in idx |-> list[f[k]]] : f \in perms}
    IN  {s \in arrs : \A a, b \in idx : a < b => compare_by_frequency(s[a], s[b]) <= 0}

\* malloc(n * sizeof(char *)), line 180: n < 0 converts to a size no
\* allocator grants; malloc(0) returns NULL or a pointer; a positive size is
\* granted (memory is taken to suffice).
MallocOutcomes(nn) ==
    IF nn < 0 THEN {"NULL"} ELSE IF nn = 0 THEN {"NULL", "ptr"} ELSE {"ptr"}

\* A slot of the result array: a word (strdup's copy) or what malloc left.
Slot(w) == [tag |-> "word", word |-> w]

Uninit == [tag |-> "uninit", word |-> <<>>]

\* The rain calculator is not running.
RainIdle ==
    /\ p = <<>>
    /\ rain_n = 0
    /\ pmf = <<>>
    /\ rain_i = 0
    /\ scale = 1
    /\ probability = 0
    /\ pReads = {}
    /\ pmfAccess = {}
    /\ rain_pc = "idle"

\* main, lines 215-220, and the state before the first statement.
InitWords ==
    /\ text \in Texts
    /\ words_n \in WordsNVals
    /\ file = "none"
    /\ rdpos = 0
    /\ word_buffer = [k \in 0..(WORD_BUFFER_SIZE - 1) |-> 0]
    /\ pos = 0
    /\ hash_table = [k \in 0..(HASH_TABLE_SIZE - 1) |-> <<>>]
    /\ tokens = <<>>
    /\ word_linked_list = <<>>
    /\ count = 0
    /\ wllWrites = {}
    /\ result = <<>>
    /\ ret = "none"
    /\ uninitReads = {}
    /\ printed = <<>>
    /\ words_pc = "start"
    /\ RainIdle

\* main, lines 223-226: n <= 0 is rejected before any call.
MainRejects ==
    /\ words_pc = "start"
    /\ words_n <= 0
    /\ words_pc' = "exit_failure"
    /\ UNCHANGED <<text, words_n, file, rdpos, word_buffer, pos, hash_table, tokens,
                   word_linked_list, count, wllWrites, result, ret, uninitReads,
                   printed>>
    /\ UNCHANGED rainVars

\* find_frequent_words, lines 118-122: the file cannot be opened.  The call
\* is main's (n > 0) or another caller's (any n).
FopenFails ==
    /\ words_pc = "start"
    /\ ret' = "NULL"
    /\ words_pc' = "returned"
    /\ file' = "NULL"
    /\ UNCHANGED <<text, words_n, rdpos, word_buffer, pos, hash_table, tokens,
                   word_linked_list, count, wllWrites, result, uninitReads,
                   printed>>
    /\ UNCHANGED rainVars

\* find_frequent_words, lines 118 and 127-130: the file is open.
FopenSucceeds ==
    /\ words_pc = "start"
    /\ words_pc' = "read"
    /\ file' = "open"
    /\ UNCHANGED <<text, words_n, rdpos, word_buffer, pos, hash_table, tokens,
                   word_linked_list, count, wllWrites, result, ret, uninitReads,
                   printed>>
    /\ UNCHANGED rainVars

\* Lines 133-140: fgetc yields a character of a word.
ReadWordChar ==
    /\ words_pc = "read"
    /\ rdpos < Len(text)
    /\ LET c == text[rdpos + 1]
       IN  /\ Joins(c, pos)
           /\ IF pos < WORD_BUFFER_SIZE - 1
              THEN /\ word_buffer' = [word_buffer EXCEPT ![pos] = tolower(c)]
                   /\ pos' = pos + 1
              ELSE UNCHANGED <<word_buffer, pos>>
    /\ rdpos' = rdpos + 1
    /\ UNCHANGED <<text, words_n, file, hash_table, tokens, word_linked_list, count,
                   wllWrites, result, ret, uninitReads, printed, words_pc>>
    /\ UNCHANGED rainVars

\* Lines 133 and 141-149: fgetc yields any other character.
ReadOtherChar ==
    /\ words_pc = "read"
    /\ rdpos < Len(text)
    /\ ~Joins(text[rdpos + 1], pos)
    /\ IF pos > 0
       THEN LET buf == [word_buffer EXCEPT ![pos] = 0]
            IN  /\ word_buffer' = buf
                /\ hash_table' = add_word(hash_table, CString(buf, 0))
                /\ tokens' = Append(tokens, CString(buf, 0))
                /\ pos' = 0
       ELSE UNCHANGED <<word_buffer, hash_table, tokens, pos>>
    /\ rdpos' = rdpos + 1
    /\ UNCHANGED <<text, words_n, file, word_linked_list, count, wllWrites, result,
                   ret, uninitReads, printed, words_pc>>
    /\ UNCHANGED rainVars

\* Lines 133 and 153-158: fgetc yields EOF; the word in the buffer is added.
ReadEOF ==
    /\ words_pc = "read"
    /\ rdpos = Len(text)
    /\ IF pos > 0
       THEN LET buf == [word_buffer EXCEPT ![pos] = 0]
            IN  /\ word_buffer' = buf
                /\ hash_table' = add_word(hash_table, CString(buf, 0))
                /\ tokens' = Append(tokens, CString(buf, 0))
       ELSE UNCHANGED <<word_buffer, hash_table, tokens>>
    /\ words_pc' = "collect"
    /\ file' = "closed"
    /\ UNCHANGED <<text, words_n, rdpos, pos, word_linked_list, count,
                   wllWrites, result, ret, uninitReads, printed>>
    /\ UNCHANGED rainVars

\* Lines 162-174: the nodes are copied into word_linked_list, which has
\* HASH_TABLE_SIZE elements, and all of them fit.
Collect ==
    /\ words_pc = "collect"
    /\ LET nodes == CollectNodes(hash_table, 0)
       IN  /\ Len(nodes) <= HASH_TABLE_SIZE
           /\ word_linked_list' = nodes
           /\ count' = Len(nodes)
           /\ wllWrites' = 0..(Len(nodes) - 1)
    /\ words_pc' = "sort"
    /\ UNCHANGED <<text, words_n, file, rdpos, word_buffer, pos, hash_table, tokens,
                   result, ret, uninitReads, printed>>
    /\ UNCHANGED rainVars

\* Lines 162-174 with more nodes than elements: the writes at indices
\* HASH_TABLE_SIZE and above land outside the array, on the function's other
\* stack data.  The run continues with the array holding some nodes of the
\* table at each index, or it is killed.
CollectOverflows ==
    /\ words_pc = "collect"
    /\ LET nodes == CollectNodes(hash_table, 0)
           held == {nodes[k] : k \in 1..Len(nodes)}
       IN  /\ Len(nodes) > HASH_TABLE_SIZE
           /\ count' = Len(nodes)
           /\ wllWrites' = 0..(Len(nodes) - 1)
           /\ \/ /\ word_linked_list' \in [1..Len(nodes) -> held]
                 /\ words_pc' = "sort"
              \/ /\ word_linked_list' = <<>>
                 /\ words_pc' = "crashed"
    /\ UNCHANGED <<text, words_n, file, rdpos, word_buffer, pos, hash_table, tokens,
                   result, ret, uninitReads, printed>>
    /\ UNCHANGED rainVars

\* Line 177: qsort.
Sort ==
    /\ words_pc = "sort"
    /\ word_linked_list' \in SortedOrders(word_linked_list)
    /\ words_pc' = "gather"
    /\ UNCHANGED <<text, words_n, file, rdpos, word_buffer, pos, hash_table, tokens,
                   count, wllWrites, result, ret, uninitReads, printed>>
    /\ UNCHANGED rainVars

\* Lines 180-186: malloc returns NULL, and so does the function.
GatherNoMemory ==
    /\ words_pc = "gather"
    /\ "NULL" \in MallocOutcomes(words_n)
    /\ ret' = "NULL"
    /\ words_pc' = "returned"
    /\ UNCHANGED <<text, words_n, file, rdpos, word_buffer, pos, hash_table, tokens,
                   word_linked_list, count, wllWrites, result, uninitReads,
                   printed>>
    /\ UNCHANGED rainVars

\* Lines 180 and 189-207: the slots below count are assigned; the others
\* keep what malloc left in them.
Gather ==
    /\ words_pc = "gather"
    /\ "ptr" \in MallocOutcomes(words_n)
    /\ result' = [k \in 1..words_n |->
                    IF k - 1 < count THEN Slot(word_linked_list[k].word) ELSE Uninit]
    /\ ret' = "ptr"
    /\ words_pc' = "returned"
    /\ UNCHANGED <<text, words_n, file, rdpos, word_buffer, pos, hash_table, tokens,
                   word_linked_list, count, wllWrites, uninitReads, printed>>
    /\ UNCHANGED rainVars

\* main, lines 231-234.
MainFails ==
    /\ words_pc = "returned"
    /\ words_n > 0
    /\ ret = "NULL"
    /\ words_pc' = "exit_failure"
    /\ UNCHANGED <<text, words_n, file, rdpos, word_buffer, pos, hash_table, tokens,
                   word_linked_list, count, wllWrites, result, ret, uninitReads,
                   printed>>
    /\ UNCHANGED rainVars

\* main, lines 237-246: every slot below n is read.  An unassigned slot
\* reads as NULL and is skipped, or as some other pointer, which printf and
\* free then use: garbage is printed, or the run is killed.
MainPrints ==
    /\ words_pc = "returned"
    /\ words_n > 0
    /\ ret = "ptr"
    /\ LET unassigned == {k \in 1..words_n : result[k].tag = "uninit"}
       IN  /\ uninitReads' = unassigned
           /\ \E wild \in SUBSET unassigned :
                 /\ printed' = [k \in 1..words_n |->
                                  IF k \in wild THEN "garbage"
                                  ELSE IF k \in unassigned THEN "skipped"
                                  ELSE "word"]
                 /\ words_pc' \in (IF wild = {} THEN {"exit_success"}
                                   ELSE {"exit_success", "crashed"})
    /\ UNCHANGED <<text, words_n, file, rdpos, word_buffer, pos, hash_table, tokens,
                   word_linked_list, count, wllWrites, result, ret>>
    /\ UNCHANGED rainVars

NextWords ==
    \/ MainRejects \/ FopenFails \/ FopenSucceeds
    \/ ReadWordChar \/ ReadOtherChar \/ ReadEOF
    \/ Collect \/ CollectOverflows \/ Sort
    \/ GatherNoMemory \/ Gather
    \/ MainFails \/ MainPrints

SpecWords == InitWords /\ [][NextWords]_vars

(***************************************************************************)
(* Properties of rain_probability.c                                        *)
(***************************************************************************)

\* The outcomes of the DAYSPERYEAR independent trials p[0..DAYSPERYEAR-1].
Outcomes == [0..(DAYSPERYEAR - 1) -> {0, 1}]

\* Numerator (over Den^DAYSPERYEAR) of the probability of outcome o,
\* trials d..DAYSPERYEAR-1.
RECURSIVE OutcomeWeight(_, _, _)
OutcomeWeight(pp, o, d) ==
    IF d >= DAYSPERYEAR THEN 1
    ELSE (IF o[d] = 1 THEN pp[d] ELSE Den - pp[d]) * OutcomeWeight(pp, o, d + 1)

Successes(o) == Cardinality({d \in DOMAIN o : o[d] = 1})

RECURSIVE SumWeights(_, _)
SumWeights(pp, os) ==
    IF os = {} THEN 0
    ELSE LET o == CHOOSE x \in os : TRUE
         IN  OutcomeWeight(pp, o, 0) + SumWeights(pp, os \ {o})

\* Numerator (over Den^DAYSPERYEAR) of P(S > nn), by enumeration.
ExactTail(pp, nn) == SumWeights(pp, {o \in Outcomes : Successes(o) > nn})

\* C1: for 0 <= n < DAYSPERYEAR the returned value is P(S > n) for the
\* trials p[0..DAYSPERYEAR-1], each of which was folded in exactly once and
\* nothing else.
C1_TailIsExact ==
    (rain_pc = "done" /\ rain_n \in 0..(DAYSPERYEAR - 1)) =>
        /\ pReads = 0..(DAYSPERYEAR - 1)
        /\ probability = ExactTail(p, rain_n)

\* C2: for n < 0 or n >= DAYSPERYEAR the call returns 0.0, and it has
\* neither touched a pmf array nor read p.
C2_BoundaryReturnsZero ==
    (rain_pc = "done" /\ (rain_n < 0 \/ rain_n >= DAYSPERYEAR)) =>
        /\ probability = 0
        /\ rain_i = 0
        /\ pmfAccess = {}
        /\ pReads = {}

C2_Witness == rain_pc = "done" /\ rain_n = DAYSPERYEAR /\ probability = 0

\* C3 as stated: the tail probability for n = -1 is 1.0.
C3_MinusOneIsCertain ==
    (rain_pc = "done" /\ rain_n = 0 - 1) => probability = scale

\* C3 as amended: the value returned for n = -1 is 0.0, not 1.0.
C3_MinusOneIsZero ==
    (rain_pc = "done" /\ rain_n = 0 - 1) => (probability = 0 /\ probability # scale)

C3_Witness == rain_pc = "done" /\ rain_n = 0 - 1

\* C4: once a trial has been folded in, the entries of pmf sum to 1 and
\* each lies in [0,1].
C4_PmfIsDistribution ==
    (rain_pc \in {"fold", "done"} /\ rain_i >= 2) =>
        /\ TailSum(pmf, 0) = scale
        /\ \A k \in 0..DAYSPERYEAR : 0 <= pmf[k] /\ pmf[k] <= scale

\* The part of C4 that holds whatever the value read past the end of p.
PmfSumsToOne ==
    (rain_pc \in {"fold", "done"} /\ rain_i >= 1) => TailSum(pmf, 0) = scale

\* C9: every read of p is at an index in 0..DAYSPERYEAR-1 and every access
\* of pmf at an index in 0..DAYSPERYEAR.
C9_AccessesInBounds ==
    /\ pReads \subseteq 0..(DAYSPERYEAR - 1)
    /\ pmfAccess \subseteq 0..DAYSPERYEAR

(***************************************************************************)
(* Properties of most_freq_words.c                                         *)
(***************************************************************************)

AsciiLetter(c) == (65 <= c /\ c <= 90) \/ (97 <= c /\ c <= 122)

LowerCase(c) == IF 65 <= c /\ c <= 90 THEN c + 32 ELSE c

\* The tokenization rule: character k of t belongs to a word iff it is a
\* letter, or an apostrophe that follows a character of a word.
RECURSIVE Contributes(_, _)
Contributes(t, k) ==
    \/ AsciiLetter(t[k])
    \/ (t[k] = Apostrophe /\ k > 1 /\ Contributes(t, k - 1))

\* The last position of the maximal run of word characters that holds k.
RunEnd(t, k) ==
    CHOOSE e \in k..Len(t) :
        /\ \A m \in k..e : Contributes(t, m)
        /\ (e = Len(t) \/ ~Contributes(t, e + 1))

\* The maximal runs of t from position k on, lowercased, in order.
RECURSIVE RuleTokens(_, _)
RuleTokens(t, k) ==
    IF k > Len(t) THEN <<>>
    ELSE IF ~Contributes(t, k) THEN RuleTokens(t, k + 1)
    ELSE LET e == RunEnd(t, k)
         IN  <<[m \in 1..(e - k + 1) |-> LowerCase(t[k + m - 1])]>>
                 \o RuleTokens(t, e + 1)

\* A token cut to the first WORD_BUFFER_SIZE - 1 characters.
Cut(w) == IF Len(w) <= WORD_BUFFER_SIZE - 1 THEN w ELSE SubSeq(w, 1, WORD_BUFFER_SIZE - 1)

CutAll(ws) == [k \in 1..Len(ws) |-> Cut(ws[k])]

\* C5 as stated: the words passed to add_word are the maximal runs of the
\* tokenization rule, whole, whatever their length.
C5_TokensAreRuns ==
    (words_pc = "collect") => tokens = RuleTokens(text, 1)

\* C5 as amended: the words passed to add_word are the maximal runs of the
\* rule, each cut to its first WORD_BUFFER_SIZE - 1 characters; none is
\* empty.  While the file is being read this holds of the part read, the
\* run in progress being in the buffer.
C5_TokensAreCutRuns ==
    LET pre == SubSeq(text, 1, rdpos)
        runs == RuleTokens(pre, 1)
        open == words_pc = "read" /\ rdpos > 0 /\ Contributes(pre, rdpos)
    IN  /\ \A k \in 1..Len(tokens) : tokens[k] # <<>>
        /\ (words_pc = "read" /\ ~open) => (tokens = CutAll(runs) /\ pos = 0)
        /\ open => /\ tokens = CutAll(SubSeq(runs, 1, Len(runs) - 1))
                   /\ pos = Len(Cut(runs[Len(runs)]))
                   /\ \A k \in 1..pos : word_buffer[k - 1] = Cut(runs[Len(runs)])[k]
        /\ (words_pc = "collect") => tokens = CutAll(RuleTokens(text, 1))

\* A file has been tokenized in which a run was cut, a capital was
\* lowercased, an apostrophe belonged to a word and another did not.
C5_Witness ==
    /\ words_pc = "collect"
    /\ tokens # RuleTokens(text, 1)
    /\ \E k \in 1..Len(text) : text[k] # LowerCase(text[k])
    /\ \E k \in 1..Len(text) : text[k] = Apostrophe /\ Contributes(text, k)
    /\ \E k \in 1..Len(text) : text[k] = Apostrophe /\ ~Contributes(text, k)

\* Occurrences of w among the words passed to add_word.
Occurrences(w) == Cardinality({k \in 1..Len(tokens) : tokens[k] = w})

DistinctWords == {tokens[k] : k \in 1..Len(tokens)}

MinOf(a, b) == IF a <= b THEN a ELSE b

\* The top-n property of the first m slots of the result.
TopWords(m) ==
    /\ \A k \in 1..m : result[k].tag = "word" /\ result[k].word \in DistinctWords
    /\ \A a, b \in 1..m : a # b => result[a].word # result[b].word
    /\ \A a, b \in 1..m : a < b =>
           Occurrences(result[a].word) >= Occurrences(result[b].word)
    /\ \A w \in DistinctWords \ {result[k].word : k \in 1..m} :
           \A k \in 1..m : Occurrences(w) <= Occurrences(result[k].word)

\* C6: for n >= 1 the first min(n, distinct words) slots of the result hold
\* pairwise distinct words, by non-increasing number of occurrences, and no
\* word left out occurs more often than one of them.
C6_TopN ==
    (words_pc = "returned" /\ ret = "ptr" /\ words_n >= 1) =>
        TopWords(MinOf(words_n, Cardinality(DistinctWords)))

\* C6 where the distinct words fit word_linked_list.
TopNWithinCapacity ==
    (words_pc = "returned" /\ ret = "ptr" /\ words_n >= 1
        /\ Cardinality(DistinctWords) <= HASH_TABLE_SIZE) =>
        TopWords(MinOf(words_n, Cardinality(DistinctWords)))

\* C7: with n above the number of distinct words the call succeeds, the
\* slots from that number on hold no word (they are NULL), and main reads no
\* slot that was never assigned.
C7_AbsentSlots ==
    /\ (words_pc = "returned" /\ file = "closed" /\ words_n >= 1
            /\ words_n > Cardinality(DistinctWords)) =>
           /\ ret = "ptr"
           /\ \A k \in 1..words_n :
                  k > Cardinality(DistinctWords) => result[k].tag = "null"
    /\ uninitReads = {}

\* C8: for n <= 0 a call of find_frequent_words fails: it returns no result
\* array.
C8_RejectsNonPositive ==
    (words_pc = "returned" /\ file = "closed" /\ words_n <= 0) => ret = "NULL"

\* C10: every index at which word_linked_list is written is below
\* HASH_TABLE_SIZE.
C10_WritesWithinCapacity ==
    \A k \in wllWrites : k < HASH_TABLE_SIZE

====
